---- MODULE Spec2Model ----
(***************************************************************************)
(* Exercise tracker (src/index.js): an express application over two        *)
(* mongoose collections, users and exercises, with four JSON operations:   *)
(*   GET  /api/users                 getUsers                              *)
(*   POST /api/users                 createUser                            *)
(*   POST /api/users/:_id/exercises  create an exercise for a user         *)
(*   GET  /api/users/:_id/logs       the filtered, truncated exercise log  *)
(*                                                                         *)
(* Every handler is an async function: it runs to its first await, is      *)
(* suspended while the storage adapter works, and is resumed with the      *)
(* adapter's answer or its error.  A slot holds a handler in flight and    *)
(* its position (pc); the clock advances between its steps.  The handlers  *)
(* share nothing but the two collections, which they only append to, and   *)
(* each of their steps is one operation of the adapter; Slots keeps one    *)
(* handler in flight at a time.                                            *)
(*                                                                         *)
(* The request object is immutable while its handler runs, so a field of   *)
(* the request is drawn at the step that consumes it; what the handler     *)
(* computes from the clock on entry (new Date()) is fixed on entry (t0).   *)
(* The step that ends a handler publishes in `out` the request fields it   *)
(* consumed, the response it sent (NoResponse when it sent none) and the   *)
(* fault it caught ("validation": mongoose rejected a value, "storage":    *)
(* the adapter raised); the next step clears `out`.  `created` is the      *)
(* history of the {username, _id} answers of createUser.                   *)
(*                                                                         *)
(* Time is counted in ticks, DayLen ticks to the calendar day.  A Date is  *)
(* its tick, InvalidDate for an unparseable text; a date text names a day  *)
(* and parses to that day's midnight; toDateString() keeps the day only.   *)
(***************************************************************************)
EXTENDS Integers, Sequences, FiniteSets

\* ---------------------------------------------------------------- bounds
MaxUsers == 2
MaxExercises == 2
MaxTime == 2
DayLen == 2
\* the last day a date text may name
MaxDay == MaxTime \div DayLen

\* the handlers in flight at a time
Slots == {1}

\* ---------------------------------------------------------------- inputs
UsernameInputs == {"", "alice", "bob"}
Absent == [k |-> "absent"]
EmptyText == [k |-> "empty"]
BadText == [k |-> "bad"]
DayText(d) == [k |-> "day", d |-> d]
IntText(n) == [k |-> "int", n |-> n]
DateInputs == {Absent, EmptyText, BadText} \cup {DayText(d) : d \in 1..MaxDay}
FromInputs == {Absent, BadText} \cup {DayText(d) : d \in 1..MaxDay}
ToInputs == {Absent, BadText} \cup {DayText(d) : d \in 0..MaxDay}
LimitInputs == {Absent} \cup {IntText(n) : n \in 0..MaxExercises}
BodyInputs == {[description |-> "run", duration |-> 30], [description |-> "swim", duration |-> 45]}

\* ---------------------------------------------------------------- values
InvalidDate == -1
NoUser == [_id |-> 0, username |-> ""]
NoResponse == [kind |-> "none"]
NoEvent == [op |-> "none"]
NoInput == [k |-> "none"]
Idle == [op |-> "idle", pc |-> "idle", t0 |-> 0, userId |-> 0, user |-> NoUser]

VARIABLES users, exercises, now, slots, out, created

vars == <<users, exercises, now, slots, out, created>>

\* ------------------------------------------------------- pure functions
\* a request field is truthy when it is present and not the empty text
Truthy(x) == x.k \notin {"absent", "empty"}

\* new Date(text)
ParseDate(x) == IF x.k = "day" THEN x.d * DayLen ELSE InvalidDate

\* Date.prototype.toDateString(): the calendar day of the instant
ToDateString(d) == d \div DayLen

\* parseInt(text)
ParseInt(x) == x.n

\* req.body.date ? new Date(req.body.date) : new Date()
ExerciseDateEpoch(dateIn, t0) == IF Truthy(dateIn) THEN ParseDate(dateIn) ELSE 0
ExerciseDate(dateIn, t0) == IF Truthy(dateIn) THEN ParseDate(dateIn) ELSE t0

\* req.query.from ? new Date(req.query.from) : new Date(0)
FromDate(fromIn) == IF Truthy(fromIn) THEN ParseDate(fromIn) ELSE 0

\* req.query.to ? new Date(req.query.to) : new Date()
ToDate(toIn, t0) == IF Truthy(toIn) THEN ParseDate(toIn) ELSE t0

\* req.query.limit ? parseInt(req.query.limit) : 0
Limit(limitIn) == IF Truthy(limitIn) THEN ParseInt(limitIn) ELSE 0

\* userSchema: username { type: String, required: true }; mongoose's required
\* validator rejects a missing value and the empty string
RequiredNoCheck(username) == TRUE
RequiredOk(username) == username # ""

\* exerciseSchema: date: Date; an invalid Date does not cast
DateCasts(d) == d # InvalidDate

\* _id: the ObjectId a document is given when it is constructed, unique over
\* both collections (odd for users, even for exercises)
NewUserId == 2 * Len(users) + 1
NewExerciseId == 2 * Len(exercises) + 2

\* the :_id path parameter: the id of a stored document, or one not yet assigned
IdInputs ==
  {users[i]._id : i \in 1..Len(users)} \cup {exercises[i]._id : i \in 1..Len(exercises)}
    \cup {NewUserId}

\* User.findById(id): the stored user with that id, null (NoUser) when none
FindByIdFirst(id) == IF users = <<>> THEN NoUser ELSE users[1]
FindById(id) ==
  IF \E i \in 1..Len(users) : users[i]._id = id
  THEN users[CHOOSE i \in 1..Len(users) : users[i]._id = id]
  ELSE NoUser

\* searchFilter: { username, date: { $gte: from, $lte: to } }
MatchesExclusive(e, username, from, to) == e.username = username /\ e.date > from /\ e.date < to
Matches(e, username, from, to) == e.username = username /\ e.date >= from /\ e.date <= to

\* Exercise.find(searchFilter)
ExerciseFind(username, from, to) ==
  SelectSeq(exercises, LAMBDA e : Matches(e, username, from, to))

\* exercises.map(({description, duration, date}) => ({..., date: date.toDateString()}))
LogEntry(e) == [description |-> e.description, duration |-> e.duration, date |-> ToDateString(e.date)]
LogOf(found) == [i \in 1..Len(found) |-> LogEntry(found[i])]

\* if (limit > 0) logData.log = logData.log.slice(0, limit)
Min(a, b) == IF a < b THEN a ELSE b
Slice(log, limit) == IF limit > 0 THEN SubSeq(log, 1, Min(limit, Len(log))) ELSE log

\* the catch blocks: createUser answers, the others only console.error
CatchNeverAnswers(op) == NoResponse
CatchAlwaysAnswers(op) == [kind |-> "json", error |-> "Failed to create user"]
CatchResponse(op) ==
  IF op = "createUser" THEN [kind |-> "json", error |-> "Failed to create user"] ELSE NoResponse

UserNotFound == [kind |-> "json", error |-> "User not found"]

\* new User({ username }) / userDoc.save()
NewUser(username, id) == [_id |-> id, username |-> username]
InsertUserReplacing(docs, doc) ==
  IF \E i \in 1..Len(docs) : docs[i].username = doc.username
  THEN [i \in 1..Len(docs) |-> IF docs[i].username = doc.username THEN doc ELSE docs[i]]
  ELSE Append(docs, doc)
InsertUser(docs, doc) == Append(docs, doc)

\* new Exercise({ username: user.username, description, duration, date })
NewExercise(user, body, date, id) ==
  [_id |-> id, username |-> user.username, description |-> body.description,
   duration |-> body.duration, date |-> date]
InsertExerciseReplacing(docs, doc) ==
  IF docs # <<>> /\ docs[Len(docs)].username = doc.username
  THEN [docs EXCEPT ![Len(docs)] = doc]
  ELSE Append(docs, doc)
InsertExercise(docs, doc) == Append(docs, doc)

\* res.json({ _id: user._id, username: user.username, description, duration, date })
ExerciseResponseIdOfSaved(user, saved) == saved._id
ExerciseResponseId(user, saved) == user._id
ExerciseResponse(user, saved) ==
  [kind |-> "json", _id |-> ExerciseResponseId(user, saved), username |-> user.username,
   description |-> saved.description, duration |-> saved.duration,
   date |-> ToDateString(saved.date)]

\* logData: { _id, username, count: exercises.length, log }, log cut to limit
LogsResponseCountOfSlice(user, found, limit) ==
  [kind |-> "json", _id |-> user._id, username |-> user.username,
   count |-> Len(Slice(LogOf(found), limit)), log |-> Slice(LogOf(found), limit)]
LogsResponse(user, found, limit) ==
  [kind |-> "json", _id |-> user._id, username |-> user.username,
   count |-> Len(found), log |-> Slice(LogOf(found), limit)]

\* res.json(users)
UsersResponse(docs) == [kind |-> "json", list |-> docs]

Event(op, in, s, fault, resp) ==
  [op |-> op, in |-> in, t0 |-> slots[s].t0, user |-> slots[s].user, fault |-> fault, resp |-> resp]

\* ------------------------------------------------------------------ Init
Init ==
  /\ users = <<>>
  /\ exercises = <<>>
  /\ now = 1
  /\ slots = [s \in Slots |-> Idle]
  /\ out = NoEvent
  /\ created = <<>>

\* the clock advances
Tick ==
  /\ now < MaxTime
  /\ now' = now + 1
  /\ out' = NoEvent
  /\ UNCHANGED <<users, exercises, slots, created>>

\* ---------------------------------------------------------- GET /api/users
RecvGetUsers(s) ==
  /\ slots[s] = Idle
  /\ slots' = [slots EXCEPT ![s] = [Idle EXCEPT !.op = "getUsers", !.pc = "find"]]
  /\ out' = NoEvent
  /\ UNCHANGED <<users, exercises, now, created>>

GetUsersFind(s) ==
  /\ slots[s].op = "getUsers" /\ slots[s].pc = "find"
  /\ \/ out' = Event("getUsers", NoInput, s, "none", UsersResponse(users))
     \/ out' = Event("getUsers", NoInput, s, "storage", CatchResponse("getUsers"))
  /\ slots' = [slots EXCEPT ![s] = Idle]
  /\ UNCHANGED <<users, exercises, now, created>>

\* --------------------------------------------------------- POST /api/users
RecvCreateUser(s) ==
  /\ slots[s] = Idle
  /\ slots' = [slots EXCEPT ![s] = [Idle EXCEPT !.op = "createUser", !.pc = "save"]]
  /\ out' = NoEvent
  /\ UNCHANGED <<users, exercises, now, created>>

CreateUserSave(s) ==
  /\ slots[s].op = "createUser" /\ slots[s].pc = "save"
  /\ slots' = [slots EXCEPT ![s] = Idle]
  /\ \E username \in UsernameInputs :
       LET in == [username |-> username]
           doc == NewUser(username, NewUserId)
       IN  \/ /\ ~RequiredOk(username)
              /\ out' = Event("createUser", in, s, "validation", CatchResponse("createUser"))
              /\ UNCHANGED <<users, created>>
           \/ /\ RequiredOk(username)
              /\ Len(users) < MaxUsers
              /\ users' = InsertUser(users, doc)
              /\ out' = Event("createUser", in, s, "none",
                              [kind |-> "json", username |-> doc.username, _id |-> doc._id])
              /\ created' = Append(created, [username |-> username, _id |-> doc._id])
           \/ /\ RequiredOk(username)
              /\ out' = Event("createUser", in, s, "storage", CatchResponse("createUser"))
              /\ UNCHANGED <<users, created>>
  /\ UNCHANGED <<exercises, now>>

\* ------------------------------------------- POST /api/users/:_id/exercises
RecvPostExercise(s) ==
  /\ slots[s] = Idle
  /\ slots' = [slots EXCEPT ![s] = [Idle EXCEPT !.op = "postExercise", !.pc = "findUser", !.t0 = now]]
  /\ out' = NoEvent
  /\ UNCHANGED <<users, exercises, now, created>>

PostExerciseFindUser(s) ==
  /\ slots[s].op = "postExercise" /\ slots[s].pc = "findUser"
  /\ \E id \in IdInputs :
       LET in == [userId |-> id]
           user == FindById(id)
       IN  \/ /\ user = NoUser
              /\ out' = Event("postExercise", in, s, "none", UserNotFound)
              /\ slots' = [slots EXCEPT ![s] = Idle]
           \/ /\ user # NoUser
              /\ out' = NoEvent
              /\ slots' = [slots EXCEPT ![s].pc = "save", ![s].userId = id, ![s].user = user]
           \/ /\ out' = Event("postExercise", in, s, "storage", CatchResponse("postExercise"))
              /\ slots' = [slots EXCEPT ![s] = Idle]
  /\ UNCHANGED <<users, exercises, now, created>>

PostExerciseSave(s) ==
  /\ slots[s].op = "postExercise" /\ slots[s].pc = "save"
  /\ slots' = [slots EXCEPT ![s] = Idle]
  /\ \/ \E body \in BodyInputs, dateIn \in DateInputs :
          LET in == [userId |-> slots[s].userId, body |-> body, date |-> dateIn]
              date == ExerciseDate(dateIn, slots[s].t0)
              doc == NewExercise(slots[s].user, body, date, NewExerciseId)
          IN  \/ /\ ~DateCasts(date)
                 /\ out' = Event("postExercise", in, s, "validation", CatchResponse("postExercise"))
                 /\ UNCHANGED exercises
              \/ /\ DateCasts(date)
                 /\ Len(exercises) < MaxExercises
                 /\ exercises' = InsertExercise(exercises, doc)
                 /\ out' = Event("postExercise", in, s, "none", ExerciseResponse(slots[s].user, doc))
     \/ /\ out' = Event("postExercise", [userId |-> slots[s].userId], s, "storage",
                         CatchResponse("postExercise"))
        /\ UNCHANGED exercises
  /\ UNCHANGED <<users, now, created>>

\* ------------------------------------------------ GET /api/users/:_id/logs
RecvLogs(s) ==
  /\ slots[s] = Idle
  /\ slots' = [slots EXCEPT ![s] = [Idle EXCEPT !.op = "logs", !.pc = "findUser", !.t0 = now]]
  /\ out' = NoEvent
  /\ UNCHANGED <<users, exercises, now, created>>

LogsFindUser(s) ==
  /\ slots[s].op = "logs" /\ slots[s].pc = "findUser"
  /\ \E id \in IdInputs :
       LET in == [userId |-> id]
           user == FindById(id)
       IN  \/ /\ user = NoUser
              /\ out' = Event("logs", in, s, "none", UserNotFound)
              /\ slots' = [slots EXCEPT ![s] = Idle]
           \/ /\ user # NoUser
              /\ out' = NoEvent
              /\ slots' = [slots EXCEPT ![s].pc = "find", ![s].userId = id, ![s].user = user]
           \/ /\ out' = Event("logs", in, s, "storage", CatchResponse("logs"))
              /\ slots' = [slots EXCEPT ![s] = Idle]
  /\ UNCHANGED <<users, exercises, now, created>>

LogsFind(s) ==
  /\ slots[s].op = "logs" /\ slots[s].pc = "find"
  /\ slots' = [slots EXCEPT ![s] = Idle]
  /\ \/ \E fromIn \in FromInputs, toIn \in ToInputs :
          LET user == slots[s].user
              from == FromDate(fromIn)
              to == ToDate(toIn, slots[s].t0)
              found == ExerciseFind(user.username, from, to)
          IN  \/ /\ ~(DateCasts(from) /\ DateCasts(to))
                 /\ out' = Event("logs", [userId |-> slots[s].userId, from |-> fromIn, to |-> toIn],
                                 s, "validation", CatchResponse("logs"))
              \/ /\ DateCasts(from) /\ DateCasts(to)
                 /\ \E limitIn \in LimitInputs :
                      out' = Event("logs",
                                   [userId |-> slots[s].userId, from |-> fromIn, to |-> toIn,
                                    limit |-> limitIn],
                                   s, "none", LogsResponse(user, found, Limit(limitIn)))
     \/ out' = Event("logs", [userId |-> slots[s].userId], s, "storage", CatchResponse("logs"))
  /\ UNCHANGED <<users, exercises, now, created>>

Next ==
  \/ Tick
  \/ \E s \in Slots : RecvGetUsers(s)
  \/ \E s \in Slots : GetUsersFind(s)
  \/ \E s \in Slots : RecvCreateUser(s)
  \/ \E s \in Slots : CreateUserSave(s)
  \/ \E s \in Slots : RecvPostExercise(s)
  \/ \E s \in Slots : PostExerciseFindUser(s)
  \/ \E s \in Slots : PostExerciseSave(s)
  \/ \E s \in Slots : RecvLogs(s)
  \/ \E s \in Slots : LogsFindUser(s)
  \/ \E s \in Slots : LogsFind(s)

Spec == Init /\ [][Next]_vars

\* ---------------------------------------------------------------- claims
UserIds == {users[i]._id : i \in 1..Len(users)}
ExerciseIds == {exercises[i]._id : i \in 1..Len(exercises)}
FailedToCreate == [kind |-> "json", error |-> "Failed to create user"]
IsPrefix(a, b) == Len(a) <= Len(b) /\ SubSeq(b, 1, Len(a)) = a

\* a handler has just answered a log query with the log object
LogsAnswered == out.op = "logs" /\ out.fault = "none" /\ out.resp # UserNotFound
\* a handler has just answered an exercise creation with the created exercise
ExerciseAnswered == out.op = "postExercise" /\ out.fault = "none" /\ out.resp # UserNotFound

\* the bounds and the limit the query of the published event asks for
AskedFrom == IF out.in.from.k = "day" THEN out.in.from.d * DayLen ELSE 0
AskedTo == IF out.in.to.k = "day" THEN out.in.to.d * DayLen ELSE out.t0
AskedLimit == IF out.in.limit.k = "int" THEN out.in.limit.n ELSE 0
\* the positions of the stored exercises that pass the filter of that query
Passing ==
  {i \in 1..Len(exercises) :
     /\ exercises[i].username = out.user.username
     /\ AskedFrom <= exercises[i].date
     /\ exercises[i].date <= AskedTo}
Rank(i) == Cardinality({j \in Passing : j <= i})
Shown(i) ==
  [description |-> exercises[i].description, duration |-> exercises[i].duration,
   date |-> exercises[i].date \div DayLen]

\* C1: the log response's count is the number of the user's exercises that pass
\* the date filter, before truncation; its log is the first `limit` of them when
\* limit > 0 (length min(limit, count)) and all of them when limit is absent or 0.
C1_CountBeforeTruncation ==
  LogsAnswered =>
    /\ out.resp.count = Cardinality(Passing)
    /\ Len(out.resp.log) =
         IF AskedLimit > 0 THEN Min(AskedLimit, out.resp.count) ELSE out.resp.count
    /\ \A i \in Passing :
         Rank(i) <= Len(out.resp.log) => out.resp.log[Rank(i)] = Shown(i)

C1_Witness ==
  /\ LogsAnswered
  /\ AskedLimit = 1
  /\ out.resp.count = 2
  /\ Len(out.resp.log) = 1

\* C2: with no limit, the log holds exactly the stored exercises of the found
\* user's username dated within [from, to], both bounds inclusive, from 0 and to
\* the time of the request by default: as many copies of every entry as there are
\* such exercises showing it, so count 0 and an empty log when there are none.
C2_LogIsExactlyTheFilter ==
  (LogsAnswered /\ out.in.limit.k = "absent") =>
    LET log == out.resp.log
        inRange(e) ==
          /\ e.username = out.resp.username
          /\ (IF Truthy(out.in.from) THEN out.in.from.d * DayLen ELSE 0) <= e.date
          /\ e.date <= (IF Truthy(out.in.to) THEN out.in.to.d * DayLen ELSE out.t0)
        kept == {i \in 1..Len(exercises) : inRange(exercises[i])}
    IN  /\ \E k \in 1..Len(users) :
             users[k]._id = out.in.userId /\ users[k].username = out.resp.username
        /\ out.resp.count = Cardinality(kept)
        /\ Len(log) = Cardinality(kept)
        /\ \A i \in kept :
             Cardinality({k \in 1..Len(log) : log[k] = Shown(i)})
               = Cardinality({j \in kept : Shown(j) = Shown(i)})
        /\ (kept = {}) => (out.resp.count = 0 /\ log = <<>>)

C2_Witness ==
  /\ LogsAnswered
  /\ out.in.limit.k = "absent"
  /\ out.in.from.k = "day"
  /\ out.resp.count = 1
  /\ \E i \in 1..Len(exercises) :
       exercises[i].username = out.user.username /\ exercises[i].date < AskedFrom
  /\ \E i \in 1..Len(exercises) : exercises[i].date = AskedFrom

C4_ListHasEveryCreatedUser ==
  (out.op = "getUsers" /\ out.fault = "none") =>
    LET list == out.resp.list
    IN  /\ Len(list) = Len(created)
        /\ \A i, j \in 1..Len(list) : i # j => list[i]._id # list[j]._id
        /\ \A c \in 1..Len(created) :
             \E i \in 1..Len(list) :
               list[i]._id = created[c]._id /\ list[i].username = created[c].username

C4_Witness ==
  /\ out.op = "getUsers"
  /\ out.fault = "none"
  /\ Len(out.resp.list) = 2
  /\ out.resp.list[1].username = out.resp.list[2].username
  /\ out.resp.list[1]._id # out.resp.list[2]._id

\* C5: a successful exercise creation stores exactly one new exercise: it carries
\* the found user's username, the supplied description and duration, and the
\* supplied date, or the time of the call when no date is supplied; the response
\* reports the same username, description, duration and (as a day) date.
C5_ExerciseStoredAsSupplied ==
  [][(/\ out'.op = "postExercise"
      /\ out'.fault = "none"
      /\ out'.resp # UserNotFound)
       => /\ Len(exercises') = Len(exercises) + 1
          /\ IsPrefix(exercises, exercises')
          /\ LET e == exercises'[Len(exercises')]
                 in == out'.in
             IN  /\ \E k \in 1..Len(users) :
                      /\ users[k]._id = in.userId
                      /\ e.username = users[k].username
                 /\ e.description = in.body.description
                 /\ e.duration = in.body.duration
                 /\ e.date = (IF in.date.k = "day" THEN in.date.d * DayLen ELSE out'.t0)
                 /\ \E s \in Slots : slots[s].op = "postExercise" /\ slots[s].t0 = out'.t0
                 /\ out'.resp.username = e.username
                 /\ out'.resp.description = e.description
                 /\ out'.resp.duration = e.duration
                 /\ out'.resp.date = e.date \div DayLen]_vars

C5_Witness ==
  /\ ExerciseAnswered
  /\ out.in.date.k = "absent"
  /\ out.t0 < now
  /\ exercises[Len(exercises)].date = out.t0

\* C6: when the insert of POST /api/users fails, the response is exactly
\* {error: "Failed to create user"} and the stored users are unchanged.
C6_FailedInsertAnswered ==
  [][(out'.op = "createUser" /\ out'.fault # "none")
       => (out'.resp = FailedToCreate /\ users' = users /\ created' = created)]_vars

C6_Witness ==
  /\ out.op = "createUser"
  /\ out.fault = "storage"
  /\ out.resp = FailedToCreate
  /\ users # <<>>

\* C7, as stated: POST /api/users creates a user for every username text, the
\* empty one included, whenever the store works.
C7_AsStated ==
  (out.op = "createUser" /\ out.fault # "storage") => out.resp # FailedToCreate

\* C7, amended: POST /api/users with a non-empty username and a working store
\* inserts one user of that username and answers {username, _id}; the schema
\* requires the username, so the empty username is answered
\* {error: "Failed to create user"} and nothing is stored.
C7_RequiredUsername ==
  [][(out'.op = "createUser")
       => IF out'.in.username = ""
          THEN out'.resp = FailedToCreate /\ users' = users
          ELSE out'.fault = "none" =>
                 /\ out'.resp = [kind |-> "json", username |-> out'.in.username,
                                 _id |-> out'.resp._id]
                 /\ out'.resp._id \notin UserIds
                 /\ users' = Append(users, [_id |-> out'.resp._id,
                                            username |-> out'.in.username])]_vars

C7_Witness ==
  /\ out.op = "createUser"
  /\ out.in.username = ""
  /\ out.fault = "validation"
  /\ out.resp = FailedToCreate

\* C8: a handler of GET /api/users, POST /api/users/:_id/exercises or
\* GET /api/users/:_id/logs that catches an error of the storage adapter ends
\* without having sent any response; only createUser answers with an error body.
C8_FaultLeavesNoResponse ==
  /\ (out.op \in {"getUsers", "postExercise", "logs"} /\ out.fault # "none")
       => (out.resp = NoResponse /\ \A s \in Slots : slots[s] = Idle)
  /\ (out.op # "none" /\ out.fault # "none" /\ out.resp # NoResponse)
       => out.op = "createUser"

C8_Witness ==
  /\ out.op = "logs"
  /\ out.fault = "storage"
  /\ out.user # NoUser
  /\ out.resp = NoResponse

C10_ExerciseIdNeverExposed ==
  /\ ExerciseAnswered =>
       /\ out.resp._id = out.in.userId
       /\ out.resp._id \in UserIds
       /\ out.resp._id # exercises[Len(exercises)]._id
  /\ LogsAnswered =>
       /\ out.resp._id = out.in.userId
       /\ out.resp._id \notin ExerciseIds
       /\ \A k \in 1..Len(out.resp.log) :
            DOMAIN out.resp.log[k] = {"description", "duration", "date"}
  /\ (out.op = "getUsers" /\ out.fault = "none") =>
       \A k \in 1..Len(out.resp.list) : out.resp.list[k]._id \notin ExerciseIds
  /\ (out.op = "createUser" /\ out.fault = "none") => out.resp._id \notin ExerciseIds

C10_Witness ==
  /\ ExerciseAnswered
  /\ Len(exercises) = 2
  /\ out.resp._id = out.user._id
====
